---------------------------- MODULE Spec2Model ----------------------------
(***************************************************************************)
(* A model of nanobot's admin panel (src/nanobot/admin/server.py): the     *)
(* credential gate, the status / session / file-tree handlers, the uptime  *)
(* formatter and the start/stop lifecycle of AdminServer.                  *)
(*                                                                         *)
(* Text is modelled as a sequence of one-character strings, so that        *)
(* formatting, slicing, prefix tests and splitting are computed character  *)
(* by character.  Bytes are modelled as integers 0..255.                   *)
(***************************************************************************)
EXTENDS Integers, Sequences, FiniteSets, TLC

VARIABLES
    fmtSeconds,     \* argument of _format_uptime
    fmtResult,      \* its return value, NotYet before the call
    password,       \* AdminServer.password
    authReq,        \* the request in the middleware: route, header, handler outcome
    authResp,       \* the response the middleware returned, NotYet while idle
    ranHandler,     \* the handler the middleware awaited for authReq, or "none"
    session_manager, \* AdminServer.session_manager: "absent" (None) or "present"
    index,          \* the store's index: what list_sessions() returns
    sessions,       \* the store's live sessions, by key
    sessResp,       \* the response of the session handler that ran last
    agent_loop,     \* AdminServer.agent_loop
    cron_service,   \* AdminServer.cron_service: "absent" (None) or "present"
    channels,       \* AdminServer.channels
    configuredChannels, \* the channels argument the server was constructed with
    start_time,     \* _START_TIME, in clock ticks
    clock,          \* what time.time() returns now, in clock ticks
    statusResp,     \* the response of the status or index handler that ran last
    cronCalled,     \* whether cron_service.status() has ever been called
    uptimeLog,      \* uptime_seconds of the last two status responses
    fs,             \* the file system below ~/.nanobot
    fsChanges,      \* how many times other processes have changed fs
    walkDepth,      \* the depth argument of the outermost _build_file_tree call
    stack,          \* the active _build_file_tree calls, outermost first
    filesResp,      \* the response of _handle_files, NoFilesResp before it
    listedAt,       \* the depth arguments of the calls that listed a directory
    runner,         \* AdminServer._runner
    runners,        \* the state of every AppRunner start() has created
    portHolder,     \* who holds the TCP port: a runner, another process, nobody
    lastCall        \* the call on the server that ended last

fmtVars == <<fmtSeconds, fmtResult>>

authVars == <<password, authReq, authResp, ranHandler>>

sessVars == <<session_manager, index, sessions, sessResp>>

filesVars == <<fs, fsChanges, walkDepth, stack, filesResp, listedAt>>

lifeVars == <<runner, runners, portHolder, lastCall>>

statusVars == <<agent_loop, cron_service, channels, configuredChannels,
                start_time, clock, statusResp, cronCalled, uptimeLog>>

vars == <<fmtSeconds, fmtResult, password, authReq, authResp, ranHandler,
          session_manager, index, sessions, sessResp,
          agent_loop, cron_service, channels, configuredChannels,
          start_time, clock, statusResp, cronCalled, uptimeLog,
          fs, fsChanges, walkDepth, stack, filesResp, listedAt,
          runner, runners, portHolder, lastCall>>

\* A text result that has not been produced yet.
NotYet == <<"not-yet">>

(***************************************************************************)
(* Generic sequence helpers.                                               *)
(***************************************************************************)
Min(a, b) == IF a < b THEN a ELSE b

Max(a, b) == IF a < b THEN b ELSE a

Range(f) == {f[i] : i \in DOMAIN f}

\* Python's seq[-n:] for n > 0: the last min(n, len) elements, in order.
LastN(seq, n) == SubSeq(seq, Max(1, Len(seq) - n + 1), Len(seq))

\* Python's seq[:n] for n >= 0: the first min(n, len) elements.
FirstN(seq, n) == SubSeq(seq, 1, Min(n, Len(seq)))

(***************************************************************************)
(* _format_uptime (server.py 141-153).                                     *)
(***************************************************************************)
DigitChars == <<"0", "1", "2", "3", "4", "5", "6", "7", "8", "9">>

RECURSIVE NatStr(_)
\* Decimal digits of n >= 0, without leading zeros: str(n).
NatStr(n) ==
    IF n < 10 THEN <<DigitChars[n + 1]>>
    ELSE Append(NatStr(n \div 10), DigitChars[(n % 10) + 1])

\* f"{n}" for an int.
IntStr(n) == IF n < 0 THEN <<"-">> \o NatStr(-n) ELSE NatStr(n)

\* divmod(a, b) for b > 0: floor division and a remainder in 0..b-1.
divmod(a, b) == <<a \div b, a % b>>

RECURSIVE Join(_, _)
\* sep.join(parts)
Join(parts, sep) ==
    IF Len(parts) = 0 THEN <<>>
    ELSE IF Len(parts) = 1 THEN parts[1]
    ELSE parts[1] \o sep \o Join(Tail(parts), sep)

\* The parts list built by lines 145-152 from the four values.
uptime_parts(d, h, m, s) ==
    (IF d # 0 THEN <<IntStr(d) \o <<"d">>>> ELSE <<>>)
    \o (IF h # 0 THEN <<IntStr(h) \o <<"h">>>> ELSE <<>>)
    \o (IF m # 0 THEN <<IntStr(m) \o <<"m">>>> ELSE <<>>)
    \o <<IntStr(s) \o <<"s">>>>

\* A slip: hours taken from the whole duration instead of the remainder.
format_uptime_hours_of_total(seconds) ==
    LET d   == divmod(seconds, 86400)[1]
        rem == divmod(seconds, 86400)[2]
        h   == divmod(seconds, 3600)[1]
        m   == divmod(divmod(rem, 3600)[2], 60)[1]
        s   == divmod(divmod(rem, 3600)[2], 60)[2]
    IN  Join(uptime_parts(d, h, m, s), <<" ">>)

format_uptime(seconds) ==
    LET d    == divmod(seconds, 86400)[1]
        rem1 == divmod(seconds, 86400)[2]
        h    == divmod(rem1, 3600)[1]
        rem2 == divmod(rem1, 3600)[2]
        m    == divmod(rem2, 60)[1]
        s    == divmod(rem2, 60)[2]
    IN  Join(uptime_parts(d, h, m, s), <<" ">>)

\* Durations tried: every value up to MaxSeconds, and a few long ones.
MaxSeconds == 90100

MinSeconds == 2

LongDurations ==
    {86399, 86400, 86401, 90000, 90060, 90061, 172799, 172800,
     863999, 864000, 950399, 8640000, 8643600, 8726399}
    \cup {86400 * d + 3600 * h + 60 * m + s :
            d \in {1, 12}, h \in {0, 1, 23}, m \in {0, 7, 59}, s \in {0, 9, 59}}

FmtInputs == (-MinSeconds .. MaxSeconds) \cup LongDurations

FmtInit ==
    /\ fmtSeconds \in FmtInputs
    /\ fmtResult = NotYet

FormatUptime ==
    /\ fmtResult = NotYet
    /\ fmtResult' = format_uptime(fmtSeconds)
    /\ UNCHANGED fmtSeconds

FmtIdle ==
    /\ fmtSeconds = 0
    /\ fmtResult = NotYet

(***************************************************************************)
(* Credential gate: AdminServer._auth_middleware (server.py 37-54).        *)
(***************************************************************************)
B64Chars ==
    <<"A", "B", "C", "D", "E", "F", "G", "H", "I", "J", "K", "L", "M",
      "N", "O", "P", "Q", "R", "S", "T", "U", "V", "W", "X", "Y", "Z",
      "a", "b", "c", "d", "e", "f", "g", "h", "i", "j", "k", "l", "m",
      "n", "o", "p", "q", "r", "s", "t", "u", "v", "w", "x", "y", "z",
      "0", "1", "2", "3", "4", "5", "6", "7", "8", "9", "+", "/">>

IsB64(c) == \E i \in 0..63 : B64Chars[i + 1] = c

B64Index(c) == CHOOSE i \in 0..63 : B64Chars[i + 1] = c

\* ASCII codes of the characters credentials are made of here.
AsciiCode == ("u" :> 117) @@ (":" :> 58) @@ ("p" :> 112)

Chr(b) == CHOOSE c \in DOMAIN AsciiCode : AsciiCode[c] = b

Failed == [ok |-> FALSE, value |-> <<>>]

Ok(v) == [ok |-> TRUE, value |-> v]

RECURSIVE a2b_base64(_, _, _, _, _, _)
\* base64.b64decode(s) (line 44), as binascii.a2b_base64 does it without
\* validation: characters outside the alphabet are skipped, a pad sequence
\* that completes a quad ends the decoding, an incomplete quad raises.
a2b_base64(chars, i, quad_pos, leftchar, pads, out) ==
    IF i > Len(chars)
    THEN IF quad_pos # 0 THEN Failed ELSE Ok(out)
    ELSE LET c == chars[i] IN
         IF c = "="
         THEN IF quad_pos >= 2 /\ quad_pos + pads + 1 >= 4
              THEN Ok(out)
              ELSE a2b_base64(chars, i + 1, quad_pos, leftchar,
                              IF quad_pos >= 2 THEN pads + 1 ELSE pads, out)
         ELSE IF ~IsB64(c)
         THEN a2b_base64(chars, i + 1, quad_pos, leftchar, pads, out)
         ELSE LET v == B64Index(c) IN
              CASE quad_pos = 0 ->
                     a2b_base64(chars, i + 1, 1, v, 0, out)
                [] quad_pos = 1 ->
                     a2b_base64(chars, i + 1, 2, v % 16, 0,
                                Append(out, leftchar * 4 + (v \div 16)))
                [] quad_pos = 2 ->
                     a2b_base64(chars, i + 1, 3, v % 4, 0,
                                Append(out, leftchar * 16 + (v \div 4)))
                [] quad_pos = 3 ->
                     a2b_base64(chars, i + 1, 0, 0, 0,
                                Append(out, leftchar * 64 + v))

b64decode(chars) == a2b_base64(chars, 1, 0, 0, 0, <<>>)

\* bytes.decode() (line 44), UTF-8: ASCII bytes decode to themselves; the
\* only other byte the requests here carry is 0xFF, which is never valid.
utf8_decode(bytes) ==
    IF \A i \in 1..Len(bytes) : bytes[i] < 128
    THEN Ok([i \in 1..Len(bytes) |-> Chr(bytes[i])])
    ELSE Failed

\* A slip: str.rsplit(":", 1), which cuts at the last colon.
split_last_colon(text) ==
    IF \A i \in 1..Len(text) : text[i] # ":" THEN <<text>>
    ELSE LET k == CHOOSE i \in 1..Len(text) :
                     text[i] = ":" /\ \A j \in (i + 1)..Len(text) : text[j] # ":"
         IN  <<SubSeq(text, 1, k - 1), SubSeq(text, k + 1, Len(text))>>

\* decoded.split(":", 1) (line 45): at most one cut, at the first colon.
split_colon_once(text) ==
    IF \A i \in 1..Len(text) : text[i] # ":" THEN <<text>>
    ELSE LET k == CHOOSE i \in 1..Len(text) :
                     text[i] = ":" /\ \A j \in 1..(i - 1) : text[j] # ":"
         IN  <<SubSeq(text, 1, k - 1), SubSeq(text, k + 1, Len(text))>>

BasicPrefix == <<"B", "a", "s", "i", "c", " ">>

\* str.startswith
startswith(str, prefix) ==
    Len(str) >= Len(prefix) /\ SubSeq(str, 1, Len(prefix)) = prefix

\* request.headers.get("Authorization", "") (line 41)
headers_get_authorization(req) == IF req.hasAuth THEN req.auth ELSE <<>>

\* Lines 43-45: the password a Basic header carries; not ok when any of the
\* three steps raises (the except of line 48 swallows it).
basic_password(auth) ==
    LET raw == b64decode(SubSeq(auth, Len(BasicPrefix) + 1, Len(auth))) IN
    IF ~raw.ok THEN Failed
    ELSE LET decoded == utf8_decode(raw.value) IN
         IF ~decoded.ok THEN Failed
         ELSE LET parts == split_colon_once(decoded.value) IN
              IF Len(parts) # 2 THEN Failed ELSE Ok(parts[2])

\* Which return statement of the middleware a request takes: "open" is line
\* 40, "match" is line 47, "deny" is line 50.
auth_gate(pw, auth) ==
    IF pw = <<>> THEN "open"
    ELSE IF startswith(auth, BasicPrefix)
              /\ basic_password(auth).ok
              /\ basic_password(auth).value = pw
         THEN "match"
         ELSE "deny"

\* Routes registered by AdminServer.start (lines 121-125).
route_table ==
    ("/" :> "_handle_index")
    @@ ("/api/status" :> "_handle_status")
    @@ ("/api/sessions" :> "_handle_sessions")
    @@ ("/api/sessions/{key}" :> "_handle_session_detail")
    @@ ("/api/files" :> "_handle_files")

Routes == DOMAIN route_table

NoResponse == [status |-> 0, www_authenticate |-> "", text |-> ""]

\* Lines 50-54.
unauthorized_response ==
    [status |-> 401,
     www_authenticate |-> "Basic realm=\"nanobot admin\"",
     text |-> "Unauthorized"]

\* What the awaited handler gives back: a response, or an exception.
HandlerOutcomes == {"returns200", "returns500", "raises"}

handler_response(route, outcome) ==
    [status |-> IF outcome = "returns200" THEN 200 ELSE 500,
     www_authenticate |-> "",
     text |-> route_table[route]]

\* An exception that leaves the middleware is answered by aiohttp with 500.
server_error_response ==
    [status |-> 500, www_authenticate |-> "", text |-> "Internal Server Error"]

\* The credentials a client may send: a password of at most MaxDecodedLen
\* bytes over AuthBytes, encoded; the same with its last character lost; and
\* headers that are not Basic headers at all.
MaxDecodedLen == 3

AuthBytes == {117, 58, 112, 255}

RECURSIVE ByteStrings(_)
ByteStrings(n) ==
    IF n = 0 THEN {<<>>}
    ELSE ByteStrings(n - 1)
         \cup {Append(s, b) : s \in {t \in ByteStrings(n - 1) : Len(t) = n - 1},
                              b \in AuthBytes}

RECURSIVE b64encode(_)
\* The client's base64.b64encode.
b64encode(bytes) ==
    IF Len(bytes) = 0 THEN <<>>
    ELSE IF Len(bytes) = 1 THEN
        <<B64Chars[(bytes[1] \div 4) + 1],
          B64Chars[((bytes[1] % 4) * 16) + 1], "=", "=">>
    ELSE IF Len(bytes) = 2 THEN
        <<B64Chars[(bytes[1] \div 4) + 1],
          B64Chars[((bytes[1] % 4) * 16 + (bytes[2] \div 16)) + 1],
          B64Chars[((bytes[2] % 16) * 4) + 1], "=">>
    ELSE
        <<B64Chars[(bytes[1] \div 4) + 1],
          B64Chars[((bytes[1] % 4) * 16 + (bytes[2] \div 16)) + 1],
          B64Chars[((bytes[2] % 16) * 4 + (bytes[3] \div 64)) + 1],
          B64Chars[(bytes[3] % 64) + 1]>>
        \o b64encode(SubSeq(bytes, 4, Len(bytes)))

ChopLast(str) == SubSeq(str, 1, Len(str) - 1)

AuthHeaderKinds == {"absent", "basic", "chopped", "lowercase", "bearer", "nospace"}

\* The Authorization header a client builds from a plain credential string.
ClientHeader(kind, plain) ==
    CASE kind = "absent"    -> [hasAuth |-> FALSE, auth |-> <<>>]
      [] kind = "basic"     -> [hasAuth |-> TRUE, auth |-> BasicPrefix \o b64encode(plain)]
      [] kind = "chopped"   -> [hasAuth |-> TRUE,
                                auth |-> BasicPrefix \o ChopLast(b64encode(plain))]
      [] kind = "lowercase" -> [hasAuth |-> TRUE,
                                auth |-> <<"b", "a", "s", "i", "c", " ">> \o b64encode(plain)]
      [] kind = "bearer"    -> [hasAuth |-> TRUE,
                                auth |-> <<"B", "e", "a", "r", "e", "r", " ">>
                                         \o b64encode(plain)]
      [] kind = "nospace"   -> [hasAuth |-> TRUE,
                                auth |-> <<"B", "a", "s", "i", "c">> \o b64encode(plain)]

AuthRequests ==
    {[route |-> r, kind |-> k, plain |-> x, outcome |-> o,
      hasAuth |-> ClientHeader(k, x).hasAuth, auth |-> ClientHeader(k, x).auth] :
        r \in Routes, k \in {"basic", "chopped"}, x \in ByteStrings(MaxDecodedLen),
        o \in HandlerOutcomes}
    \cup
    {[route |-> r, kind |-> k, plain |-> x, outcome |-> o,
      hasAuth |-> ClientHeader(k, x).hasAuth, auth |-> ClientHeader(k, x).auth] :
        r \in Routes, k \in AuthHeaderKinds \ {"basic", "chopped"},
        x \in {<<117, 58, 112>>}, o \in HandlerOutcomes}

NoRequest ==
    [route |-> "", kind |-> "", plain |-> <<>>, outcome |-> "",
     hasAuth |-> FALSE, auth |-> <<>>]

\* Passwords an AdminServer may be constructed with; "" disables the gate.
Passwords == {<<>>, <<"p">>, <<":", "p">>, <<"p", "p">>, <<"p", ":">>}

AuthInit ==
    /\ password \in Passwords
    /\ authReq = NoRequest
    /\ authResp = NoResponse
    /\ ranHandler = "none"

\* One request through _auth_middleware, the awaited handler included.
AuthMiddleware ==
    /\ authResp = NoResponse
    /\ \E req \in AuthRequests :
        LET gate == auth_gate(password, headers_get_authorization(req)) IN
        /\ authReq' = req
        /\ ranHandler' = IF gate = "deny" THEN "none" ELSE route_table[req.route]
        /\ authResp' =
             CASE gate = "open" ->
                    IF req.outcome = "raises" THEN server_error_response
                    ELSE handler_response(req.route, req.outcome)
               [] gate = "match" ->
                    \* the handler is awaited inside the try of lines 43-49
                    IF req.outcome = "raises" THEN unauthorized_response
                    ELSE handler_response(req.route, req.outcome)
               [] gate = "deny" -> unauthorized_response
    /\ UNCHANGED password

\* The response leaves; the server is ready for the next request.
AuthRespond ==
    /\ authResp # NoResponse
    /\ authReq' = NoRequest
    /\ authResp' = NoResponse
    /\ ranHandler' = "none"
    /\ UNCHANGED password

AuthIdle ==
    /\ password = <<>>
    /\ authReq = NoRequest
    /\ authResp = NoResponse
    /\ ranHandler = "none"

(***************************************************************************)
(* The session store.  It is a collaborator (session_manager); the panel   *)
(* uses two of its operations, list_sessions() and get_or_create(key).     *)
(* A session lives in the store's memory and grows as the agent appends    *)
(* messages; the index entry of a session is written when it is saved.     *)
(***************************************************************************)
SessionKeys == {"", "cli:a", "tg:b"}

NoSession == [exists |-> FALSE, messages |-> <<>>]

\* The shapes a stored message's content field takes.
MaxContentLen == 502

LightShapes ==
    <<[kind |-> "text", len |-> 3],
      [kind |-> "missing", len |-> 0],
      [kind |-> "null", len |-> 0],
      [kind |-> "text", len |-> 0]>>

HeavyShapes ==
    <<[kind |-> "text", len |-> MaxContentLen],
      [kind |-> "text", len |-> 500],
      [kind |-> "text", len |-> 499],
      [kind |-> "text", len |-> 501]>>

\* A text of the given length whose characters differ from place to place.
TextOfLen(len, seed) == [i \in 1..len |-> DigitChars[((i * i + seed) % 10) + 1]]

\* The i-th message the agent stores, with the given content shape.
RawMessage(i, shape) ==
    [role |-> IF i % 2 = 1 THEN "user" ELSE "assistant",
     content_kind |-> shape.kind,
     content |-> TextOfLen(shape.len, i),
     timestamp |-> i,
     tools_used |-> IF i % 2 = 1 THEN "null" ELSE "tools"]

\* session_manager.get_or_create(key): the session it returns, ...
get_or_create(store, key) ==
    IF store[key].exists THEN store[key] ELSE [exists |-> TRUE, messages |-> <<>>]

\* ... and the store afterwards: a missing session has been created.
store_after_get(store, key) == [store EXCEPT ![key] = get_or_create(store, key)]

\* session_manager.list_sessions(): the index as it stands.
list_sessions(idx) == idx

(***************************************************************************)
(* AdminServer._handle_sessions (server.py 78-94) and                      *)
(* AdminServer._handle_session_detail (server.py 96-110).                  *)
(***************************************************************************)
MessageCap == 100

ContentCap == 500

\* s.get("key", "") (line 86)
entry_key(s) == IF s.has_key THEN s.key ELSE ""

\* A slip: the count the index recorded at the last save, no re-fetch.
sessions_walk_index_count(raw, i, store) ==
    [result |-> [j \in 1..Len(raw) |->
                    [key |-> entry_key(raw[j]),
                     messages |-> raw[j].saved_count,
                     created_at |-> raw[j].created_at,
                     updated_at |-> raw[j].updated_at]],
     store |-> store]

RECURSIVE sessions_walk(_, _, _)
\* The loop of lines 85-93 from entry i on: the summaries appended, and the
\* store after the get_or_create calls.
sessions_walk(raw, i, store) ==
    IF i > Len(raw) THEN [result |-> <<>>, store |-> store]
    ELSE LET key     == entry_key(raw[i])
             session == get_or_create(store, key)
             rest    == sessions_walk(raw, i + 1, store_after_get(store, key))
         IN  [result |-> <<[key |-> key,
                            messages |-> Len(session.messages),
                            created_at |-> raw[i].created_at,
                            updated_at |-> raw[i].updated_at]>> \o rest.result,
              store |-> rest.store]

\* A slip: the guard of _handle_session_detail copied into the list handler.
handle_sessions_absent_is_error(manager, idx, store) ==
    IF manager = "absent"
    THEN [resp |-> [status |-> 500, op |-> "_handle_sessions", kind |-> "error",
                    key |-> "", items |-> <<>>, error |-> "no session manager"],
          store |-> store]
    ELSE LET walk == sessions_walk(list_sessions(idx), 1, store)
         IN  [resp |-> [status |-> 200, op |-> "_handle_sessions", kind |-> "list",
                        key |-> "", items |-> walk.result, error |-> ""],
              store |-> walk.store]

\* _handle_sessions: the response and the store afterwards.
handle_sessions(manager, idx, store) ==
    IF manager = "absent"
    THEN [resp |-> [status |-> 200, op |-> "_handle_sessions", kind |-> "list",
                    key |-> "", items |-> <<>>, error |-> ""],
          store |-> store]
    ELSE LET walk == sessions_walk(list_sessions(idx), 1, store)
         IN  [resp |-> [status |-> 200, op |-> "_handle_sessions", kind |-> "list",
                        key |-> "", items |-> walk.result, error |-> ""],
              store |-> walk.store]

\* A slip: session.messages[:100], the first hundred.
first_messages(messages) == FirstN(messages, MessageCap)

\* session.messages[-100:] (line 103)
last_messages(messages) == LastN(messages, MessageCap)

\* (m.get("content") or "")[:500] (line 106)
content_view(m) ==
    FirstN(IF m.content_kind = "text" THEN m.content ELSE <<>>, ContentCap)

\* Lines 104-109.
message_view(m) ==
    [role |-> m.role,
     content |-> content_view(m),
     timestamp |-> m.timestamp,
     tools_used |-> m.tools_used]

\* _handle_session_detail: the response and the store afterwards.
handle_session_detail(manager, store, key) ==
    IF manager = "absent"
    THEN [resp |-> [status |-> 500, op |-> "_handle_session_detail", kind |-> "error",
                    key |-> "", items |-> <<>>, error |-> "no session manager"],
          store |-> store]
    ELSE LET session == get_or_create(store, key)
             shown   == last_messages(session.messages)
         IN  [resp |-> [status |-> 200, op |-> "_handle_session_detail", kind |-> "detail",
                        key |-> key,
                        items |-> [j \in 1..Len(shown) |-> message_view(shown[j])],
                        error |-> ""],
              store |-> store_after_get(store, key)]

NoSessResp ==
    [status |-> 0, op |-> "none", kind |-> "none", key |-> "", items |-> <<>>,
     error |-> ""]

HandleSessions ==
    /\ sessResp = NoSessResp
    /\ LET r == handle_sessions(session_manager, index, sessions) IN
        /\ sessResp' = r.resp
        /\ sessions' = r.store
    /\ UNCHANGED <<session_manager, index>>

HandleSessionDetail ==
    /\ sessResp = NoSessResp
    /\ \E key \in SessionKeys :
        LET r == handle_session_detail(session_manager, sessions, key) IN
        /\ sessResp' = r.resp
        /\ sessions' = r.store
    /\ UNCHANGED <<session_manager, index>>

\* The response leaves; the server is ready for the next request.
SessRespond ==
    /\ sessResp # NoSessResp
    /\ sessResp' = NoSessResp
    /\ UNCHANGED <<session_manager, index, sessions>>

(***************************************************************************)
(* The store's own life between requests: the agent appends a message to   *)
(* a live session, and a save writes the session's index entry.            *)
(***************************************************************************)
MaxLiveMessages == 2

LiveKeys == {"cli:a", "tg:b"}

AppendMessage ==
    /\ sessResp = NoSessResp
    /\ \E key \in LiveKeys :
        LET session == get_or_create(sessions, key) IN
        /\ Len(session.messages) < MaxLiveMessages
        /\ sessions' = [sessions EXCEPT ![key] =
               [exists |-> TRUE,
                messages |-> Append(session.messages,
                                    RawMessage(Len(session.messages) + 1, LightShapes[1]))]]
    /\ UNCHANGED <<session_manager, index, sessResp>>

RemoveEntry(idx, key) == SelectSeq(idx, LAMBDA e : e.key # key)

InsertAt(seq, pos, e) == SubSeq(seq, 1, pos - 1) \o <<e>> \o SubSeq(seq, pos, Len(seq))

SaveSession ==
    /\ sessResp = NoSessResp
    /\ \E key \in LiveKeys, has_key \in BOOLEAN :
        /\ sessions[key].exists
        /\ LET others == RemoveEntry(index, key)
               entry  == [has_key |-> has_key, key |-> key,
                          created_at |-> 1,
                          updated_at |-> Len(sessions[key].messages) + 1,
                          saved_count |-> Len(sessions[key].messages)]
           IN  \E pos \in 1..(Len(others) + 1) : index' = InsertAt(others, pos, entry)
    /\ UNCHANGED <<session_manager, sessions, sessResp>>

\* A store as a list request may find it: empty, nothing saved yet.
SessionsInit ==
    /\ session_manager = "present"
    /\ index = <<>>
    /\ sessions = [k \in SessionKeys |-> NoSession]
    /\ sessResp = NoSessResp

\* A store as a detail request may find it: one session of up to MaxStored
\* messages.  Under rotation p every eighth message has a long content (the
\* long shapes taking turns), the others rotate through the short shapes.
MaxStored == 102

ShapeOf(i, p) ==
    IF (i + p) % (2 * Len(HeavyShapes)) = 0
    THEN HeavyShapes[(((i + p) \div (2 * Len(HeavyShapes))) % Len(HeavyShapes)) + 1]
    ELSE LightShapes[((i + p) % Len(LightShapes)) + 1]

StoredMessages(n, p) == [i \in 1..n |-> RawMessage(i, ShapeOf(i, p))]

DetailInit ==
    /\ session_manager = "present"
    /\ index = <<>>
    /\ \E n \in 0..MaxStored, p \in 1..(2 * Len(HeavyShapes)) :
          sessions = [k \in SessionKeys |->
                        IF k = "cli:a"
                        THEN [exists |-> TRUE, messages |-> StoredMessages(n, p)]
                        ELSE NoSession]
    /\ sessResp = NoSessResp

SessIdle ==
    /\ session_manager = "absent"
    /\ index = <<>>
    /\ sessions = [k \in SessionKeys |-> NoSession]
    /\ sessResp = NoSessResp

(***************************************************************************)
(* AdminServer.__init__ (server.py 18-33), _START_TIME (line 12) and       *)
(* AdminServer._handle_status (server.py 61-76), _handle_index (58-59).    *)
(***************************************************************************)
\* The agent_loop argument: None, an object without a model attribute, or
\* an object whose model attribute names the model.
AgentLoops ==
    {[present |-> FALSE, has_model |-> FALSE, model |-> ""],
     [present |-> TRUE, has_model |-> FALSE, model |-> ""],
     [present |-> TRUE, has_model |-> TRUE, model |-> "claude-opus"]}

\* The channels argument: None, or a list (repeats are kept as given).
ChannelArgs ==
    {[given |-> FALSE, list |-> <<>>],
     [given |-> TRUE, list |-> <<>>],
     [given |-> TRUE, list |-> <<"telegram", "cli", "telegram">>]}

\* channels or [] (line 32)
channels_or_empty(arg) == IF arg.given /\ arg.list # <<>> THEN arg.list ELSE <<>>

\* time.time() is read in ticks of 1/ClockRes second.
ClockRes == 2

\* How far the wall clock runs in the model, in ticks.
MaxClock == 5

\* int(x) of a float: truncation toward zero.  Here x = ticks / ClockRes.
int_of_ticks(ticks) ==
    IF ticks >= 0 THEN ticks \div ClockRes ELSE -((-ticks) \div ClockRes)

\* int(time.time() - _START_TIME) (line 62)
uptime_seconds(now, started) == int_of_ticks(now - started)

\* getattr(self.agent_loop, "model", "unknown") if self.agent_loop else "unknown"
model_name(agent) ==
    IF agent.present
    THEN (IF agent.has_model THEN agent.model ELSE "unknown")
    ELSE "unknown"

\* Lines 65-67: the cron value of the response, and whether status() ran.
cron_info(cron) ==
    IF cron = "present"
    THEN [called |-> TRUE, value |-> "scheduler-status"]
    ELSE [called |-> FALSE, value |-> "{}"]

NoStatusResp ==
    [status |-> 0, op |-> "none", model |-> "", uptime_seconds |-> 0,
     uptime_human |-> <<>>, channels |-> <<>>, cron |-> ""]

handle_status(agent, cron, chans, now, started) ==
    [status |-> 200,
     op |-> "_handle_status",
     model |-> model_name(agent),
     uptime_seconds |-> uptime_seconds(now, started),
     uptime_human |-> format_uptime(uptime_seconds(now, started)),
     channels |-> chans,
     cron |-> cron_info(cron).value]

\* web.Response(content_type="text/html", text=_INDEX_HTML)
handle_index ==
    [status |-> 200, op |-> "_handle_index", model |-> "", uptime_seconds |-> 0,
     uptime_human |-> <<>>, channels |-> <<>>, cron |-> ""]

\* The uptimes of the last two status responses, oldest first.
LogUptime(log, u) == IF Len(log) < 2 THEN Append(log, u) ELSE <<log[2], u>>

HandleStatus ==
    /\ statusResp = NoStatusResp
    /\ sessResp = NoSessResp
    /\ statusResp' = handle_status(agent_loop, cron_service, channels, clock, start_time)
    /\ cronCalled' = (cronCalled \/ cron_info(cron_service).called)
    /\ uptimeLog' = LogUptime(uptimeLog, uptime_seconds(clock, start_time))
    /\ UNCHANGED <<agent_loop, cron_service, channels, configuredChannels,
                   start_time, clock>>

HandleIndex ==
    /\ statusResp = NoStatusResp
    /\ sessResp = NoSessResp
    /\ statusResp' = handle_index
    /\ UNCHANGED <<agent_loop, cron_service, channels, configuredChannels,
                   start_time, clock, cronCalled, uptimeLog>>

StatusRespond ==
    /\ statusResp # NoStatusResp
    /\ statusResp' = NoStatusResp
    /\ UNCHANGED <<agent_loop, cron_service, channels, configuredChannels,
                   start_time, clock, cronCalled, uptimeLog>>

\* Time passes.
ClockAdvance ==
    /\ clock < MaxClock
    /\ clock' = clock + 1
    /\ UNCHANGED <<agent_loop, cron_service, channels, configuredChannels,
                   start_time, statusResp, cronCalled, uptimeLog>>

\* time.time() is the wall clock: the system's time may be set back (by the
\* operator or by clock synchronisation) while the process runs.
ClockSetBack ==
    /\ \E t \in 0..(clock - 1) : clock' = t
    /\ UNCHANGED <<agent_loop, cron_service, channels, configuredChannels,
                   start_time, statusResp, cronCalled, uptimeLog>>

\* The module is imported (_START_TIME is taken) and the server constructed.
StatusInit ==
    /\ agent_loop \in AgentLoops
    /\ cron_service \in {"absent", "present"}
    /\ configuredChannels \in ChannelArgs
    /\ channels = channels_or_empty(configuredChannels)
    /\ start_time \in {0, MaxClock \div 2}
    /\ clock = start_time
    /\ statusResp = NoStatusResp
    /\ cronCalled = FALSE
    /\ uptimeLog = <<>>

\* The store a server may be constructed with: none, or one holding a
\* saved session with one message.
StatusStoreInit ==
    /\ session_manager \in {"absent", "present"}
    /\ index = <<[has_key |-> TRUE, key |-> "cli:a", created_at |-> 1,
                  updated_at |-> 2, saved_count |-> 1]>>
    /\ sessions = [k \in SessionKeys |->
                     IF k = "cli:a"
                     THEN [exists |-> TRUE,
                           messages |-> <<RawMessage(1, LightShapes[1])>>]
                     ELSE NoSession]
    /\ sessResp = NoSessResp

StatusIdle ==
    /\ agent_loop = [present |-> FALSE, has_model |-> FALSE, model |-> ""]
    /\ cron_service = "absent"
    /\ configuredChannels = [given |-> FALSE, list |-> <<>>]
    /\ channels = <<>>
    /\ start_time = 0
    /\ clock = 0
    /\ statusResp = NoStatusResp
    /\ cronCalled = FALSE
    /\ uptimeLog = <<>>

(***************************************************************************)
(* The file system under ~/.nanobot, as the walk sees it through pathlib.  *)
(* A path is the sequence of names below the root.  Inodes are numbers;    *)
(* a directory maps names to targets, a target being an inode, Absent (no  *)
(* such entry) or Dangling (a symlink whose target does not exist: the     *)
(* name is listed, but a stat of it fails).  A symlink to a directory is   *)
(* an entry whose target is that directory's inode, since is_dir, is_file  *)
(* and stat all follow symlinks; that is how the graph becomes cyclic.     *)
(***************************************************************************)
Absent == 0

Dangling == -1

RootDir == 1

DirInodes == {1, 2, 5}

FileInodes == {3, 4}

FileSize == (3 :> 7) @@ (4 :> 0)

\* Entry names, with the code points str comparison goes by.
NameCodes ==
    ("B" :> <<66>>)
    @@ ("a" :> <<97>>)
    @@ ("b" :> <<98>>)
    @@ ("__pycache__" :> <<95, 95, 112, 121, 99, 97, 99, 104, 101, 95, 95>>)
    @@ ("__pycache__old" :> <<95, 95, 112, 121, 99, 97, 99, 104, 101, 95, 95,
                             111, 108, 100>>)

Names == DOMAIN NameCodes

NoLinks == [n \in Names |-> Absent]

\* Three trees the walk may start on.  In the first, b/b is a symlink back
\* to the root.  In the second, a cache directory and a dangling symlink sit
\* beside a sub-directory.  In the third, the root itself does not exist.
FsShapes ==
    {[root |-> RootDir,
      links |-> (1 :> [NoLinks EXCEPT !["b"] = 2, !["a"] = 3, !["B"] = 4])
                @@ (2 :> [NoLinks EXCEPT !["b"] = 1])
                @@ (5 :> NoLinks),
      unreadable |-> {}],
     [root |-> RootDir,
      links |-> (1 :> [NoLinks EXCEPT !["__pycache__old"] = 5, !["a"] = 2,
                                      !["B"] = Dangling])
                @@ (2 :> [NoLinks EXCEPT !["a"] = 3])
                @@ (5 :> [NoLinks EXCEPT !["a"] = 4]),
      unreadable |-> {}],
     [root |-> Absent,
      links |-> (1 :> NoLinks) @@ (2 :> NoLinks) @@ (5 :> NoLinks),
      unreadable |-> {}]}

RECURSIVE resolve_from(_, _, _)
resolve_from(f, cur, path) ==
    IF path = <<>> THEN cur
    ELSE IF cur \notin DirInodes THEN Absent
    ELSE LET t == f.links[cur][Head(path)] IN
         IF t \in {Absent, Dangling} THEN Absent
         ELSE resolve_from(f, t, Tail(path))

\* The inode a path leads to, following symlinks; Absent when there is none.
resolve(f, path) ==
    IF f.root \in {Absent, Dangling} THEN Absent ELSE resolve_from(f, f.root, path)

\* Path.is_dir(): False also when the path does not exist.
is_dir(f, path) == resolve(f, path) \in DirInodes

\* Path.is_file(): False also when the path does not exist.
is_file(f, path) == resolve(f, path) \in FileInodes

\* Path.stat().st_size, or OSError when the path does not exist.
stat_size(f, path) ==
    IF resolve(f, path) \in FileInodes THEN Ok(FileSize[resolve(f, path)])
    ELSE IF resolve(f, path) \in DirInodes THEN Ok(0)
    ELSE Failed

\* Path.iterdir(): the names of a directory, or the exception it raises.
iterdir(f, path) ==
    LET d == resolve(f, path) IN
    IF d = Absent THEN [raises |-> "FileNotFoundError", names |-> {}]
    ELSE IF d \notin DirInodes THEN [raises |-> "NotADirectoryError", names |-> {}]
    ELSE IF d \in f.unreadable THEN [raises |-> "PermissionError", names |-> {}]
    ELSE [raises |-> "", names |-> {n \in Names : f.links[d][n] # Absent}]

(***************************************************************************)
(* _build_file_tree (server.py 156-177) and _handle_files (112-115).       *)
(* The recursion is kept as a stack of frames, one per active call, and    *)
(* each step is one look at the file system, so that other processes may   *)
(* change the tree between two looks.                                      *)
(***************************************************************************)
RECURSIVE CodesLess(_, _)
\* str < str: lexicographic by code point.
CodesLess(x, y) ==
    IF y = <<>> THEN FALSE
    ELSE IF x = <<>> THEN TRUE
    ELSE IF Head(x) # Head(y) THEN Head(x) < Head(y)
    ELSE CodesLess(Tail(x), Tail(y))

NameLess(n1, n2) == CodesLess(NameCodes[n1], NameCodes[n2])

\* The sort key of line 162, (not p.is_dir(), p.name), compared as tuples.
key_less(f, dir, n1, n2) ==
    LET d1 == is_dir(f, Append(dir, n1))
        d2 == is_dir(f, Append(dir, n2))
    IN  IF d1 # d2 THEN d1 ELSE NameLess(n1, n2)

RECURSIVE sorted_entries(_, _, _)
\* sorted(root.iterdir(), key=...): names are distinct, so are the keys.
sorted_entries(f, dir, names) ==
    IF names = {} THEN <<>>
    ELSE LET first == CHOOSE n \in names :
                         \A m \in names \ {n} : key_less(f, dir, n, m)
         IN  <<first>> \o sorted_entries(f, dir, names \ {first})

CachePrefix == NameCodes["__pycache__"]

\* entry.name.startswith("__pycache__") (line 166)
is_cache_name(n) ==
    /\ Len(NameCodes[n]) >= Len(CachePrefix)
    /\ SubSeq(NameCodes[n], 1, Len(CachePrefix)) = CachePrefix

\* A slip: the walk stops one level late.
depth_exhausted_late(depth) == depth < 0

\* depth <= 0 (line 158)
depth_exhausted(depth) == depth <= 0

\* The depth argument of _handle_files' call (line 114).
HandlerDepth == 3

NoNode ==
    [name |-> "", type |-> "", has_size |-> FALSE, size |-> 0,
     has_children |-> FALSE, children |-> <<>>]

NewFrame(path, depth) ==
    [path |-> path, depth |-> depth, pc |-> "check", entries |-> <<>>, i |-> 1,
     result |-> <<>>, node |-> NoNode]

NoFilesResp == [status |-> 0, tree |-> <<>>, error |-> ""]

Top == stack[Len(stack)]

EntryPath == Append(Top.path, Top.entries[Top.i])

SetTop(frame) == [stack EXCEPT ![Len(stack)] = frame]

\* The top call returns value: to json_response when it is the outermost
\* call (lines 114-115), else into the caller's node (lines 175-176).
ReturnValue(value) ==
    IF Len(stack) = 1
    THEN /\ stack' = <<>>
         /\ filesResp' = [status |-> 200, tree |-> value, error |-> ""]
    ELSE LET caller == stack[Len(stack) - 1]
             node   == [caller.node EXCEPT !.has_children = TRUE, !.children = value]
         IN  /\ stack' = Append(SubSeq(stack, 1, Len(stack) - 2),
                                [caller EXCEPT !.result = Append(@, node),
                                               !.i = @ + 1,
                                               !.pc = "entry",
                                               !.node = NoNode])
             /\ UNCHANGED filesResp

\* An exception no except clause catches leaves every call and the handler;
\* aiohttp answers 500.
RaiseOut(exception) ==
    /\ stack' = <<>>
    /\ filesResp' = [status |-> 500, tree |-> <<>>, error |-> exception]

\* GET /api/files arrives: _build_file_tree(root, depth) is called.
FilesStart ==
    /\ stack = <<>>
    /\ filesResp = NoFilesResp
    /\ stack' = <<NewFrame(<<>>, walkDepth)>>
    /\ UNCHANGED <<fs, fsChanges, walkDepth, filesResp, listedAt>>

\* Line 158.
WalkCheck ==
    /\ stack # <<>>
    /\ Top.pc = "check"
    /\ IF depth_exhausted(Top.depth) \/ ~is_dir(fs, Top.path)
       THEN ReturnValue(<<>>)
       ELSE stack' = SetTop([Top EXCEPT !.pc = "list"]) /\ UNCHANGED filesResp
    /\ UNCHANGED <<fs, fsChanges, walkDepth, listedAt>>

\* Lines 161-164: the listing and its sort.
WalkList ==
    /\ stack # <<>>
    /\ Top.pc = "list"
    /\ LET listing == iterdir(fs, Top.path) IN
        /\ listedAt' = listedAt \cup {Top.depth}
        /\ IF listing.raises = "PermissionError" THEN ReturnValue(<<>>)
           ELSE IF listing.raises # "" THEN RaiseOut(listing.raises)
           ELSE /\ stack' = SetTop([Top EXCEPT
                                      !.entries = sorted_entries(fs, Top.path, listing.names),
                                      !.i = 1,
                                      !.pc = "entry"])
                /\ UNCHANGED filesResp
    /\ UNCHANGED <<fs, fsChanges, walkDepth>>

\* Lines 165-168: the next entry, its name and its type; line 177 at the end.
WalkEntry ==
    /\ stack # <<>>
    /\ Top.pc = "entry"
    /\ IF Top.i > Len(Top.entries) THEN ReturnValue(Top.result)
       ELSE IF is_cache_name(Top.entries[Top.i])
       THEN stack' = SetTop([Top EXCEPT !.i = @ + 1]) /\ UNCHANGED filesResp
       ELSE /\ stack' = SetTop([Top EXCEPT
                 !.node = [NoNode EXCEPT
                             !.name = Top.entries[Top.i],
                             !.type = IF is_dir(fs, EntryPath) THEN "dir" ELSE "file"],
                 !.pc = "is_file"])
            /\ UNCHANGED filesResp
    /\ UNCHANGED <<fs, fsChanges, walkDepth, listedAt>>

\* Line 169.
WalkIsFile ==
    /\ stack # <<>>
    /\ Top.pc = "is_file"
    /\ stack' = SetTop([Top EXCEPT !.pc = IF is_file(fs, EntryPath) THEN "stat" ELSE "is_dir"])
    /\ UNCHANGED <<fs, fsChanges, walkDepth, filesResp, listedAt>>

\* Lines 170-173.
WalkStat ==
    /\ stack # <<>>
    /\ Top.pc = "stat"
    /\ LET st == stat_size(fs, EntryPath) IN
       stack' = SetTop([Top EXCEPT
                   !.node = [@ EXCEPT !.has_size = TRUE,
                                      !.size = IF st.ok THEN st.value ELSE 0],
                   !.pc = "is_dir"])
    /\ UNCHANGED <<fs, fsChanges, walkDepth, filesResp, listedAt>>

\* Lines 174-176.
WalkIsDir ==
    /\ stack # <<>>
    /\ Top.pc = "is_dir"
    /\ IF is_dir(fs, EntryPath)
       THEN stack' = Append(SetTop([Top EXCEPT !.pc = "call"]),
                            NewFrame(EntryPath, Top.depth - 1))
       ELSE stack' = SetTop([Top EXCEPT !.result = Append(@, Top.node),
                                        !.i = @ + 1,
                                        !.pc = "entry",
                                        !.node = NoNode])
    /\ UNCHANGED <<fs, fsChanges, walkDepth, filesResp, listedAt>>

\* The response leaves; the server is ready for the next request.
FilesRespond ==
    /\ filesResp # NoFilesResp
    /\ filesResp' = NoFilesResp
    /\ listedAt' = {}
    /\ UNCHANGED <<fs, fsChanges, walkDepth, stack>>

(***************************************************************************)
(* Other processes change the tree at any moment, at most MaxFsChanges     *)
(* times: an entry is removed, an entry is replaced by one of the other    *)
(* kind, a directory loses its read permission, the root is removed.       *)
(***************************************************************************)
MaxFsChanges == 2

MaxDepthArg == 3

LinkedDirs == {d \in DirInodes : \E n \in Names : fs.links[d][n] # Absent}

FsRemoveEntry ==
    /\ fsChanges < MaxFsChanges
    /\ \E d \in LinkedDirs, n \in Names :
        /\ fs.links[d][n] # Absent
        /\ fs' = [fs EXCEPT !.links[d][n] = Absent]
    /\ fsChanges' = fsChanges + 1
    /\ UNCHANGED <<walkDepth, stack, filesResp, listedAt>>

FsReplaceEntry ==
    /\ fsChanges < MaxFsChanges
    /\ \E d \in LinkedDirs, n \in Names :
        /\ fs.links[d][n] \notin {Absent, Dangling}
        /\ fs' = [fs EXCEPT !.links[d][n] = IF @ \in DirInodes THEN 3 ELSE 5]
    /\ fsChanges' = fsChanges + 1
    /\ UNCHANGED <<walkDepth, stack, filesResp, listedAt>>

FsRevokeRead ==
    /\ fsChanges < MaxFsChanges
    /\ \E d \in LinkedDirs \ fs.unreadable :
        fs' = [fs EXCEPT !.unreadable = @ \cup {d}]
    /\ fsChanges' = fsChanges + 1
    /\ UNCHANGED <<walkDepth, stack, filesResp, listedAt>>

FsRemoveRoot ==
    /\ fsChanges < MaxFsChanges
    /\ fs.root # Absent
    /\ fs' = [fs EXCEPT !.root = Absent]
    /\ fsChanges' = fsChanges + 1
    /\ UNCHANGED <<walkDepth, stack, filesResp, listedAt>>

FilesInit ==
    /\ fs \in FsShapes
    /\ fsChanges = 0
    /\ walkDepth \in (-1 .. MaxDepthArg) \cup {HandlerDepth}
    /\ stack = <<>>
    /\ filesResp = NoFilesResp
    /\ listedAt = {}

FilesIdle ==
    /\ fs = [root |-> Absent,
             links |-> (1 :> NoLinks) @@ (2 :> NoLinks) @@ (5 :> NoLinks),
             unreadable |-> {}]
    /\ fsChanges = 0
    /\ walkDepth = HandlerDepth
    /\ stack = <<>>
    /\ filesResp = NoFilesResp
    /\ listedAt = {}

(***************************************************************************)
(* AdminServer.start (server.py 119-131) and AdminServer.stop (133-136).   *)
(* Every AppRunner ever created is kept in runners, with its state:        *)
(* "setup" (set up, no site listening), "serving" (its site holds the      *)
(* port) or "cleaned" (cleanup() has run).  runner is self._runner: the    *)
(* number of a runner, or NoRunner for None.                               *)
(***************************************************************************)
NoRunner == 0

\* How many runners the model lets start() create.
MaxRunners == 4

PortFree == 0

PortOther == -1

\* site.start() (line 130) binds the port: it raises when the port is held.
bind_succeeds(holder) == holder = PortFree

\* start(), run to its end or to the exception that leaves it.
Start ==
    /\ Len(runners) < MaxRunners
    /\ LET new == Len(runners) + 1 IN
        /\ runner' = new
        /\ IF bind_succeeds(portHolder)
           THEN /\ runners' = Append(runners, "serving")
                /\ portHolder' = new
                /\ lastCall' = "start"
           ELSE /\ runners' = Append(runners, "setup")
                /\ UNCHANGED portHolder
                /\ lastCall' = "start-raised"

\* stop()
Stop ==
    /\ IF runner # NoRunner
       THEN /\ runners' = [runners EXCEPT ![runner] = "cleaned"]
            /\ portHolder' = IF portHolder = runner THEN PortFree ELSE portHolder
            /\ runner' = NoRunner
       ELSE UNCHANGED <<runners, portHolder, runner>>
    /\ lastCall' = "stop"

\* Another process takes the port while it is free, or gives it back.
PortTakenElsewhere ==
    /\ portHolder = PortFree
    /\ portHolder' = PortOther
    /\ UNCHANGED <<runner, runners, lastCall>>

PortReleasedElsewhere ==
    /\ portHolder = PortOther
    /\ portHolder' = PortFree
    /\ UNCHANGED <<runner, runners, lastCall>>

LifeInit ==
    /\ runner = NoRunner
    /\ runners = <<>>
    /\ portHolder \in {PortFree, PortOther}
    /\ lastCall = "none"

LifeIdle ==
    /\ runner = NoRunner
    /\ runners = <<>>
    /\ portHolder = PortFree
    /\ lastCall = "none"


(***************************************************************************)
(* Specifications, one per part of the program.                            *)
(***************************************************************************)
InitFmt == FmtInit /\ AuthIdle /\ SessIdle /\ StatusIdle /\ FilesIdle /\ LifeIdle

NextFmt == FormatUptime /\ UNCHANGED <<authVars, sessVars, statusVars, filesVars, lifeVars>>

SpecFmt == InitFmt /\ [][NextFmt]_vars

InitAuth == AuthInit /\ FmtIdle /\ SessIdle /\ StatusIdle /\ FilesIdle /\ LifeIdle

NextAuth ==
    \/ AuthMiddleware /\ UNCHANGED <<fmtVars, sessVars, statusVars, filesVars, lifeVars>>
    \/ AuthRespond /\ UNCHANGED <<fmtVars, sessVars, statusVars, filesVars, lifeVars>>

SpecAuth == InitAuth /\ [][NextAuth]_vars

InitDetail == DetailInit /\ FmtIdle /\ AuthIdle /\ StatusIdle /\ FilesIdle /\ LifeIdle

NextDetail ==
    \/ HandleSessionDetail /\ UNCHANGED <<fmtVars, authVars, statusVars, filesVars, lifeVars>>
    \/ SessRespond /\ UNCHANGED <<fmtVars, authVars, statusVars, filesVars, lifeVars>>

SpecDetail == InitDetail /\ [][NextDetail]_vars

InitSessions == SessionsInit /\ FmtIdle /\ AuthIdle /\ StatusIdle /\ FilesIdle /\ LifeIdle

NextSessions ==
    \/ AppendMessage /\ UNCHANGED <<fmtVars, authVars, statusVars, filesVars, lifeVars>>
    \/ SaveSession /\ UNCHANGED <<fmtVars, authVars, statusVars, filesVars, lifeVars>>
    \/ HandleSessions /\ UNCHANGED <<fmtVars, authVars, statusVars, filesVars, lifeVars>>
    \/ HandleSessionDetail /\ UNCHANGED <<fmtVars, authVars, statusVars, filesVars, lifeVars>>
    \/ SessRespond /\ UNCHANGED <<fmtVars, authVars, statusVars, filesVars, lifeVars>>

SpecSessions == InitSessions /\ [][NextSessions]_vars

\* The server with any combination of collaborators, serving the status,
\* index and session routes one request at a time while the clock moves.
Init == StatusInit /\ StatusStoreInit /\ FmtIdle /\ AuthIdle /\ FilesIdle /\ LifeIdle

Next ==
    \/ HandleStatus /\ UNCHANGED <<fmtVars, authVars, sessVars, filesVars, lifeVars>>
    \/ HandleIndex /\ UNCHANGED <<fmtVars, authVars, sessVars, filesVars, lifeVars>>
    \/ StatusRespond /\ UNCHANGED <<fmtVars, authVars, sessVars, filesVars, lifeVars>>
    \/ ClockAdvance /\ UNCHANGED <<fmtVars, authVars, sessVars, filesVars, lifeVars>>
    \/ ClockSetBack /\ UNCHANGED <<fmtVars, authVars, sessVars, filesVars, lifeVars>>
    \/ statusResp = NoStatusResp /\ HandleSessions
         /\ UNCHANGED <<fmtVars, authVars, statusVars, filesVars, lifeVars>>
    \/ statusResp = NoStatusResp /\ HandleSessionDetail
         /\ UNCHANGED <<fmtVars, authVars, statusVars, filesVars, lifeVars>>
    \/ SessRespond /\ UNCHANGED <<fmtVars, authVars, statusVars, filesVars, lifeVars>>

Spec == Init /\ [][Next]_vars

InitFiles == FilesInit /\ FmtIdle /\ AuthIdle /\ SessIdle /\ StatusIdle /\ LifeIdle

NextFiles ==
    \/ FilesStart /\ UNCHANGED <<fmtVars, authVars, sessVars, statusVars, lifeVars>>
    \/ WalkCheck /\ UNCHANGED <<fmtVars, authVars, sessVars, statusVars, lifeVars>>
    \/ WalkList /\ UNCHANGED <<fmtVars, authVars, sessVars, statusVars, lifeVars>>
    \/ WalkEntry /\ UNCHANGED <<fmtVars, authVars, sessVars, statusVars, lifeVars>>
    \/ WalkIsFile /\ UNCHANGED <<fmtVars, authVars, sessVars, statusVars, lifeVars>>
    \/ WalkStat /\ UNCHANGED <<fmtVars, authVars, sessVars, statusVars, lifeVars>>
    \/ WalkIsDir /\ UNCHANGED <<fmtVars, authVars, sessVars, statusVars, lifeVars>>
    \/ FilesRespond /\ UNCHANGED <<fmtVars, authVars, sessVars, statusVars, lifeVars>>
    \/ FsRemoveEntry /\ UNCHANGED <<fmtVars, authVars, sessVars, statusVars, lifeVars>>
    \/ FsReplaceEntry /\ UNCHANGED <<fmtVars, authVars, sessVars, statusVars, lifeVars>>
    \/ FsRevokeRead /\ UNCHANGED <<fmtVars, authVars, sessVars, statusVars, lifeVars>>
    \/ FsRemoveRoot /\ UNCHANGED <<fmtVars, authVars, sessVars, statusVars, lifeVars>>

SpecFiles == InitFiles /\ [][NextFiles]_vars

InitLife == LifeInit /\ FmtIdle /\ AuthIdle /\ SessIdle /\ StatusIdle /\ FilesIdle

NextLife ==
    \/ Start /\ UNCHANGED <<fmtVars, authVars, sessVars, statusVars, filesVars>>
    \/ Stop /\ UNCHANGED <<fmtVars, authVars, sessVars, statusVars, filesVars>>
    \/ PortTakenElsewhere /\ UNCHANGED <<fmtVars, authVars, sessVars, statusVars, filesVars>>
    \/ PortReleasedElsewhere
         /\ UNCHANGED <<fmtVars, authVars, sessVars, statusVars, filesVars>>

SpecLife == InitLife /\ [][NextLife]_vars

(***************************************************************************)
(* Reading a formatted duration back.                                      *)
(***************************************************************************)
RECURSIVE SplitOn(_, _)
\* str.split(sep) for a one-character separator.
SplitOn(str, sep) ==
    IF \A i \in 1..Len(str) : str[i] # sep THEN <<str>>
    ELSE LET k == CHOOSE i \in 1..Len(str) :
                     str[i] = sep /\ \A j \in 1..(i - 1) : str[j] # sep
         IN  <<SubSeq(str, 1, k - 1)>> \o SplitOn(SubSeq(str, k + 1, Len(str)), sep)

DigitVal(c) == CHOOSE v \in 0..9 : DigitChars[v + 1] = c

IsDigit(c) == \E v \in 0..9 : DigitChars[v + 1] = c

RECURSIVE ParseNat(_)
ParseNat(digs) ==
    IF Len(digs) = 0 THEN 0
    ELSE 10 * ParseNat(SubSeq(digs, 1, Len(digs) - 1)) + DigitVal(digs[Len(digs)])

\* A segment is <digits><unit>: at least one digit, no leading zero unless "0".
SegUnit(seg) == seg[Len(seg)]

SegDigits(seg) == SubSeq(seg, 1, Len(seg) - 1)

SegWellFormed(seg) ==
    /\ Len(seg) >= 2
    /\ SegUnit(seg) \in {"d", "h", "m", "s"}
    /\ \A i \in 1..(Len(seg) - 1) : IsDigit(seg[i])
    /\ (Len(seg) > 2 => seg[1] # "0")

SegValue(seg) == ParseNat(SegDigits(seg))

UnitRank(u) == CASE u = "d" -> 1 [] u = "h" -> 2 [] u = "m" -> 3 [] u = "s" -> 4

\* The value read back for a unit, 0 when the unit has no segment.
UnitValue(segs, u) ==
    IF \E i \in 1..Len(segs) : SegUnit(segs[i]) = u
    THEN SegValue(segs[CHOOSE i \in 1..Len(segs) : SegUnit(segs[i]) = u])
    ELSE 0

\* C7: for s >= 0 the output of _format_uptime is a space-separated list of
\* well-formed segments in the order d, h, m, s, each unit at most once, the
\* seconds segment always last and present, a d/h/m segment present only with
\* a nonzero value (and present whenever that value is nonzero, since the
\* values read back reconstruct s with h < 24, m < 60, sec < 60), and the
\* output for 0 is "0s".
C7_FormatRoundTrip ==
    (fmtResult # NotYet /\ fmtSeconds >= 0) =>
        LET segs == SplitOn(fmtResult, " ")
            d    == UnitValue(segs, "d")
            h    == UnitValue(segs, "h")
            m    == UnitValue(segs, "m")
            sec  == UnitValue(segs, "s")
        IN  /\ \A i \in 1..Len(segs) : SegWellFormed(segs[i])
            /\ \A i, j \in 1..Len(segs) :
                  i < j => UnitRank(SegUnit(segs[i])) < UnitRank(SegUnit(segs[j]))
            /\ SegUnit(segs[Len(segs)]) = "s"
            /\ \A i \in 1..Len(segs) :
                  SegUnit(segs[i]) # "s" => SegValue(segs[i]) # 0
            /\ 86400 * d + 3600 * h + 60 * m + sec = fmtSeconds
            /\ h < 24 /\ m < 60 /\ sec < 60
            /\ d = fmtSeconds \div 86400
            /\ (fmtSeconds = 0 => fmtResult = <<"0", "s">>)

\* The documented example 90061 -> "1d 1h 1m 1s" has been formatted.
C7_Witness ==
    /\ fmtSeconds = 90061
    /\ fmtResult = <<"1", "d", " ", "1", "h", " ", "1", "m", " ", "1", "s">>

(***************************************************************************)
(* C1: the credential gate.                                                *)
(***************************************************************************)
\* What the claim calls authorized, read off what the client sent: the gate
\* is disabled, or the header is "Basic " followed by the base64 of a text
\* whose part after the first colon is the password.
C1_Authorized ==
    \/ password = <<>>
    \/ /\ authReq.kind = "basic"
       /\ \A i \in 1..Len(authReq.plain) : authReq.plain[i] < 128
       /\ \E k \in 1..Len(authReq.plain) :
             /\ authReq.plain[k] = AsciiCode[":"]
             /\ \A j \in 1..(k - 1) : authReq.plain[j] # AsciiCode[":"]
             /\ Len(password) = Len(authReq.plain) - k
             /\ \A i \in 1..Len(password) :
                   AsciiCode[password[i]] = authReq.plain[k + i]

\* C1: for a request to any of the five routes, the route's handler runs if
\* and only if the request is authorized; a request that is not authorized
\* is answered 401 with the Basic challenge and the body "Unauthorized", and
\* no handler runs.
C1_GateDecidesHandler ==
    authResp # NoResponse =>
        /\ authReq.route \in Routes
        /\ (ranHandler = route_table[authReq.route]) <=> C1_Authorized
        /\ (~C1_Authorized =>
              /\ ranHandler = "none"
              /\ authResp.status = 401
              /\ authResp.www_authenticate = "Basic realm=\"nanobot admin\""
              /\ authResp.text = "Unauthorized")

\* A Basic header with a wrong password was refused on the session-detail
\* route, and a password containing a colon was accepted.
C1_Witness ==
    /\ authResp.status = 401
    /\ password = <<":", "p">>
    /\ authReq.kind = "basic"
    /\ authReq.plain = <<117, 58, 112>>
    /\ authReq.route = "/api/sessions/{key}"
    /\ ranHandler = "none"

(***************************************************************************)
(* C2: session detail.                                                     *)
(***************************************************************************)
\* C2: a detail response for a session with n stored messages carries
\* min(n, 100) views, the j-th being the view of the j-th of the last
\* min(n, 100) stored messages; a view's content is the first min(len, 500)
\* characters of the stored content, and empty when the stored content is
\* missing or null.
C2_DetailProjection ==
    sessResp.kind = "detail" =>
        LET stored == sessions[sessResp.key].messages
            n      == Len(stored)
            views  == sessResp.items
            k      == Len(views)
        IN  /\ sessResp.status = 200
            /\ k = (IF n < 100 THEN n ELSE 100)
            /\ \A j \in 1..k :
                  LET src == stored[n - k + j] IN
                  /\ views[j].timestamp = src.timestamp
                  /\ views[j].role = src.role
                  /\ Len(views[j].content) <= 500
                  /\ IF src.content_kind = "text"
                     THEN /\ Len(views[j].content) =
                               (IF Len(src.content) < 500 THEN Len(src.content) ELSE 500)
                          /\ \A c \in 1..Len(views[j].content) :
                                views[j].content[c] = src.content[c]
                     ELSE views[j].content = <<>>

\* A session of more than 100 messages was shown: the first view is not the
\* first stored message, and a content of more than 500 characters, a null
\* content and a missing content are among the stored messages shown.
C2_Witness ==
    /\ sessResp.kind = "detail"
    /\ Len(sessions[sessResp.key].messages) = 102
    /\ Len(sessResp.items) = 100
    /\ sessResp.items[1].timestamp = 3
    /\ \E j \in 1..100 : Len(sessions[sessResp.key].messages[j + 2].content) > 500
                          /\ Len(sessResp.items[j].content) = 500
    /\ \E j \in 1..100 : sessions[sessResp.key].messages[j + 2].content_kind = "null"
    /\ \E j \in 1..100 : sessions[sessResp.key].messages[j + 2].content_kind = "missing"

(***************************************************************************)
(* C3: session list.                                                       *)
(***************************************************************************)
\* C3: a list response carries one summary per entry list_sessions()
\* returned, in the same order, each with the entry's key (or "" when the
\* entry has none) and timestamps, and with the number of messages the
\* session of that key holds in the store when the request is answered.
C3_LiveCounts ==
    (sessResp.kind = "list" /\ session_manager = "present") =>
        /\ Len(sessResp.items) = Len(index)
        /\ \A j \in 1..Len(index) :
              LET k == IF index[j].has_key THEN index[j].key ELSE "" IN
              /\ sessResp.items[j].key = k
              /\ sessResp.items[j].created_at = index[j].created_at
              /\ sessResp.items[j].updated_at = index[j].updated_at
              /\ sessions[k].exists
              /\ sessResp.items[j].messages = Len(sessions[k].messages)

\* A list of two sessions was answered while one of them had grown since its
\* last save: the count shown is the live one, not the saved one.
C3_Witness ==
    /\ sessResp.kind = "list"
    /\ Len(sessResp.items) = 2
    /\ \E j \in 1..2 :
          /\ index[j].has_key
          /\ index[j].saved_count = 0
          /\ sessResp.items[j].messages = 2

(***************************************************************************)
(* C8: absent collaborators.                                               *)
(***************************************************************************)
\* C8: whatever collaborators are absent, the status route answers 200 with
\* model "unknown" when there is no agent or the agent has no model field
\* (the agent's model otherwise), with the empty mapping as cron when there
\* is no scheduler, and with the channels as configured (order and repeats
\* kept); the scheduler's status() is never called when there is no
\* scheduler; the session list answers 200 with [] when there is no store;
\* and the only response that is an error is session detail's 500 with an
\* error text, given exactly when there is no store.
C8_AbsentCollaborators ==
    /\ statusResp.op = "_handle_status" =>
          /\ statusResp.status = 200
          /\ (~agent_loop.present \/ ~agent_loop.has_model) => statusResp.model = "unknown"
          /\ (agent_loop.present /\ agent_loop.has_model) => statusResp.model = agent_loop.model
          /\ cron_service = "absent" => statusResp.cron = "{}"
          /\ cron_service = "present" => statusResp.cron = "scheduler-status"
          /\ statusResp.channels =
                (IF configuredChannels.given THEN configuredChannels.list ELSE <<>>)
    /\ statusResp.op = "_handle_index" => statusResp.status = 200
    /\ cron_service = "absent" => ~cronCalled
    /\ sessResp.op = "_handle_sessions" =>
          /\ sessResp.status = 200
          /\ session_manager = "absent" => sessResp.items = <<>>
    /\ sessResp.op = "_handle_session_detail" =>
          /\ session_manager = "absent" =>
                sessResp.status = 500 /\ sessResp.kind = "error" /\ sessResp.error # ""
          /\ session_manager = "present" =>
                sessResp.status = 200 /\ sessResp.kind = "detail"
    /\ sessResp.status \in {0, 200, 500}
    /\ sessResp.status = 500 =>
          sessResp.op = "_handle_session_detail" /\ session_manager = "absent"

\* With no agent, no scheduler and no store, status was answered with its
\* defaults after the session list had been answered with [].
C8_Witness ==
    /\ ~agent_loop.present
    /\ cron_service = "absent"
    /\ session_manager = "absent"
    /\ statusResp.op = "_handle_status"
    /\ statusResp.model = "unknown"
    /\ statusResp.cron = "{}"
    /\ configuredChannels.given
    /\ Len(statusResp.channels) = 3

(***************************************************************************)
(* C9: uptime across responses.                                            *)
(***************************************************************************)
\* C9: of two status responses, the later one never reports a smaller
\* uptime_seconds than the earlier one.
C9_UptimeNeverDecreases ==
    Len(uptimeLog) = 2 => uptimeLog[1] <= uptimeLog[2]

(***************************************************************************)
(* C4, C5, C6: the file tree.                                              *)
(***************************************************************************)
SeqMax(seq) == CHOOSE m \in Range(seq) : \A x \in Range(seq) : x <= m

RECURSIVE TreeHeight(_)
\* The number of levels of a tree: 0 for the empty sequence.
TreeHeight(tree) ==
    IF tree = <<>> THEN 0
    ELSE 1 + SeqMax([j \in 1..Len(tree) |-> TreeHeight(tree[j].children)])

\* C4: a snapshot taken with depth argument d has no node more than d levels
\* below the root and is empty when d <= 0; no call lists a directory with
\* a depth argument <= 0; and each recursive call is made with the caller's
\* depth minus one.
C4_DepthBound ==
    /\ filesResp.status = 200 =>
          /\ TreeHeight(filesResp.tree) <= (IF walkDepth < 0 THEN 0 ELSE walkDepth)
          /\ walkDepth <= 0 => filesResp.tree = <<>>
    /\ \A d \in listedAt : d >= 1
    /\ stack # <<>> => stack[1].depth = walkDepth
    /\ \A k \in 1..(Len(stack) - 1) : stack[k + 1].depth = stack[k].depth - 1

\* Through the symlink loop the walk with depth 3 came back to the root and
\* returned a tree of exactly three levels.
C4_Witness ==
    /\ filesResp.status = 200
    /\ walkDepth = 3
    /\ fsChanges = 0
    /\ fs.links[2]["b"] = RootDir
    /\ TreeHeight(filesResp.tree) = 3

RECURSIVE AllFilesSized(_)
\* Every node of type "file" carries a size.
AllFilesSized(tree) ==
    \A j \in 1..Len(tree) :
        /\ tree[j].type = "file" => tree[j].has_size
        /\ AllFilesSized(tree[j].children)

\* C5: GET /api/files is always answered 200, whatever the tree is and
\* however it changes during the walk, and every file of the snapshot has a
\* size (0 when the size could not be read).
C5_SnapshotNeverFails ==
    filesResp.status # 0 =>
        /\ filesResp.status = 200
        /\ AllFilesSized(filesResp.tree)

RECURSIVE AllSiblingsSorted(_)
\* In every sibling list: no "file" before a "dir", and names ascending
\* within each of the two types.
AllSiblingsSorted(tree) ==
    /\ \A i, j \in 1..Len(tree) :
          i < j =>
            /\ ~(tree[i].type = "file" /\ tree[j].type = "dir")
            /\ tree[i].type = tree[j].type => NameLess(tree[i].name, tree[j].name)
    /\ \A j \in 1..Len(tree) : AllSiblingsSorted(tree[j].children)

\* C6: every sibling list of a returned snapshot has its "dir" nodes before
\* its "file" nodes, each group in ascending order of name, also when the
\* tree is changed during the walk.
C6_DirsFirstSorted ==
    filesResp.status = 200 => AllSiblingsSorted(filesResp.tree)

(***************************************************************************)
(* C10: start and stop.                                                    *)
(***************************************************************************)
\* C10: when the call that ended last is a stop(), every runner a start()
\* created has been cleaned up and the server holds no runner.
C10_StopCleansEveryRunner ==
    lastCall = "stop" =>
        /\ runner = NoRunner
        /\ \A k \in 1..Len(runners) : runners[k] = "cleaned"

=============================================================================
